---- MODULE Spec2Model ----
(***************************************************************************)
(* A model of @lifeomic/one-query: the query-key ("fingerprint") codec,    *)
(* the invalidation matcher and cache utilities of useAPICache, and the    *)
(* result combinator of useCombinedAPIQueries.                             *)
(*                                                                         *)
(* The react-query client (QueryClient) is the store the hooks write to;   *)
(* it is modelled at the interface the cache utilities call:               *)
(* setQueryData, invalidateQueries, resetQueries, and the observers that   *)
(* useQuery / useInfiniteQuery mount.                                      *)
(***************************************************************************)
EXTENDS Integers, Sequences, FiniteSets, TLC

VARIABLES
    store,      \* the QueryClient's query cache: queryHash -> query
    last,       \* what the cache-utility call of the running event handler did
    queries,    \* the observer results handed to combineQueries
    combined,   \* the value combineQueries returned at the last render
    refetches,  \* per query of `queries`: number of refetch() calls received
    sent,       \* the last APIClient.request call and the config it handed to axios
    handlers,   \* the request handlers of the msw server, the first tried first
    mocked      \* per route: its latest mocking call and the responses received since

vars == <<store, last, queries, combined, refetches, sent, handlers, mocked>>

cacheVars == <<store, last>>
combineVars == <<queries, combined, refetches>>
mockVars == <<handlers, mocked>>

----------------------------------------------------------------------------
(* Bounds *)

MaxEntries == 2     \* queries held by the store at once
MaxQueries == 3     \* queries combined by one useCombinedAPIQueries call
MaxRefetches == 2   \* refetch() calls counted per combined query
MaxKeys == 2        \* properties of a request payload
MaxPages == 3       \* pages held by a paginated query
MaxResponses == 2   \* responses passed to one mockOrdered call
MaxCalls == 2       \* mock and mockOrdered calls between two resets

----------------------------------------------------------------------------
(* Values *)

\* createAPIHooks({ name }) instances sharing one QueryClient
Names == {"A", "B"}

Routes == {"GET /items/:id", "GET /list"}

\* Payload objects.  An object is a reference into PayloadHeap; its content
\* maps each property name to its value, "absent" when the object has no
\* such own property and "undefined" when the property holds undefined.
PKeys == {"id", "filter"}

Obj(id, filter) == [k \in PKeys |-> IF k = "id" THEN id ELSE filter]

PayloadHeap ==
    <<Obj("1", "absent"),      \* 1: { id: '1' }, the object a hook is mounted with
      Obj("2", "absent"),      \* 2: { id: '2' }, the object a hook is mounted with
      Obj("1", "absent"),      \* 3: { id: '1' }, built independently at a call site
      Obj("1", "undefined")>>  \* 4: { id: '1', filter: undefined }

PayloadRefs == 1..Len(PayloadHeap)
MountRefs == {1, 2}
NoRef == 0

Content(ref) == IF ref \in PayloadRefs THEN PayloadHeap[ref] ELSE Obj("absent", "absent")

OwnKeys(obj) == {k \in PKeys : obj[k] # "absent"}

\* Response data { message: ... }, or undefined.
Undefined == [def |-> FALSE, message |-> ""]
Def(m) == [def |-> TRUE, message |-> m]

ServerData == Def("Frodo Baggins")
UpdatedData == Def("Samwise Gamgee")

----------------------------------------------------------------------------
(* Query keys: src/src/util.ts *)

\* The elements a react-query key can hold: a key is an array of values of
\* any JavaScript type.  `kind` is the value's runtime kind, `has` the set of
\* own properties of an object, `mistyped` those of them that hold a value of
\* another type than InternalQueryKey declares (a name that is a number).
KeyFields == {"name", "route", "payload", "infinite"}

Elem(kind, has, name, route, payload, infinite) ==
    [kind |-> kind, has |-> has, name |-> name, route |-> route,
     payload |-> payload, infinite |-> infinite, mistyped |-> {}]

createQueryKey(name, route, payload, infinite) ==
    Elem("object", KeyFields, name, route, payload, infinite)

Plain(kind) == Elem(kind, {}, "", "", NoRef, FALSE)

\* Values that are not query keys of these hooks.
ForeignElems ==
    {Plain("string"), Plain("number"), Plain("null"), Plain("array")}
    \cup {Elem("object", KeyFields \ {f}, "A", "GET /list", 1, FALSE) : f \in KeyFields}

\* JavaScript's typeof
typeof(key) == IF key.kind \in {"object", "array", "null"} THEN "object" ELSE key.kind

\* typeof key === 'object' && 'name' in key && 'route' in key && ...
\* The `in` operator raises a TypeError when its right operand is null.
isInternalQueryKey(key) ==
    IF typeof(key) # "object" THEN "false"
    ELSE IF key.kind = "null" THEN "throw"
    ELSE IF KeyFields \subseteq key.has THEN "true"
    ELSE "false"

----------------------------------------------------------------------------
(* Invalidation specs: EndpointInvalidationMap of src/src/types.ts *)

\* What a spec holds for one route: nothing, 'all', a list of candidate
\* payloads, or a predicate function.
Absent == [kind |-> "absent", cands |-> <<>>, fn |-> "none"]
All == [kind |-> "all", cands |-> <<>>, fn |-> "none"]
List(cands) == [kind |-> "list", cands |-> cands, fn |-> "none"]
Fn(fn) == [kind |-> "fn", cands |-> <<>>, fn |-> fn]

\* The predicate functions callers pass: (payload) => payload.id === '1'
PredicateFns == {"idIs1"}

ApplyFn(fn, obj) == fn = "idIs1" /\ obj["id"] = "1"

CandidateLists == {<<>>, <<3>>, <<2, 3>>}

Rules == {Absent, All} \cup {List(c) : c \in CandidateLists} \cup {Fn(f) : f \in PredicateFns}

Specs == [Routes -> Rules]

EmptySpec == [r \in Routes |-> Absent]

----------------------------------------------------------------------------
(* The matcher: createQueryFilterFromSpec *)

\* lodash isEqual on two plain objects: the same own keys, holding equal values
isEqual(a, b) ==
    /\ Cardinality(OwnKeys(a)) = Cardinality(OwnKeys(b))
    /\ \A k \in OwnKeys(a) : k \in OwnKeys(b) /\ a[k] = b[k]

\* Equality of references in place of isEqual
isEqualByReference(candidate, payload) == candidate = payload

isEqualRefs(candidate, payload) == isEqual(Content(candidate), Content(payload))

\* A lookup that takes the predicate function of whichever route has one
ruleRouteOfAnyFunction(endpoints, entry) ==
    IF \E r \in DOMAIN endpoints : endpoints[r].kind = "fn"
    THEN CHOOSE r \in DOMAIN endpoints : endpoints[r].kind = "fn"
    ELSE entry.route

\* endpoints[entry.route]: the route whose rule is applied to an entry
ruleRoute(endpoints, entry) == entry.route

\* A lookup that falls back on an 'all' given for another route
payloadsToInvalidateOrAnyAll(endpoints, entry) ==
    IF entry.route \in DOMAIN endpoints /\ endpoints[entry.route].kind # "absent"
    THEN endpoints[entry.route]
    ELSE IF \E r \in DOMAIN endpoints : endpoints[r].kind = "all" THEN All
    ELSE Absent

payloadsToInvalidate(endpoints, entry) ==
    IF ruleRoute(endpoints, entry) \in DOMAIN endpoints
    THEN endpoints[ruleRoute(endpoints, entry)]
    ELSE Absent

\* matchesRule without the 'all' case: 'all' is read as a list
matchesRuleWithoutAll(rule, payload) ==
    IF rule.kind = "fn" THEN ApplyFn(rule.fn, Content(payload))
    ELSE \E i \in 1..Len(rule.cands) : isEqualRefs(rule.cands[i], payload)

\* The three ways a rule that is present accepts a payload: 'all', a
\* predicate function, a list of candidates
matchesRule(rule, payload) ==
    IF rule.kind = "all" THEN TRUE
    ELSE IF rule.kind = "fn" THEN ApplyFn(rule.fn, Content(payload))
    ELSE \E i \in 1..Len(rule.cands) : isEqualRefs(rule.cands[i], payload)

\* The callback without the comparison of entry.infinite and options.infinite
entryOutcomeAnyFlag(endpoints, options, entry) ==
    IF isInternalQueryKey(entry) = "throw" THEN "throw"
    ELSE IF isInternalQueryKey(entry) = "false" THEN "nomatch"
    ELSE IF payloadsToInvalidate(endpoints, entry).kind = "absent" THEN "nomatch"
    ELSE IF matchesRule(payloadsToInvalidate(endpoints, entry), entry.payload)
    THEN "match" ELSE "nomatch"

\* The callback of queryKey.some for one element of a key: "match" (true),
\* "nomatch" (false) or "throw".
entryOutcome(endpoints, options, entry) ==
    IF isInternalQueryKey(entry) = "throw" THEN "throw"
    ELSE IF isInternalQueryKey(entry) = "false" THEN "nomatch"
    ELSE IF entry.infinite # options.infinite THEN "nomatch"
    ELSE IF payloadsToInvalidate(endpoints, entry).kind = "absent" THEN "nomatch"
    ELSE IF matchesRule(payloadsToInvalidate(endpoints, entry), entry.payload)
    THEN "match" ELSE "nomatch"

\* The applications of a spec's predicate function made by that callback
entryCalls(endpoints, options, entry) ==
    IF /\ isInternalQueryKey(entry) = "true"
       /\ entry.infinite = options.infinite
       /\ payloadsToInvalidate(endpoints, entry).kind = "fn"
    THEN {[under |-> ruleRoute(endpoints, entry),
           fn |-> payloadsToInvalidate(endpoints, entry).fn,
           route |-> entry.route,
           payload |-> entry.payload]}
    ELSE {}

\* query.queryKey.some(...): elements are visited in order until one matches
\* or throws.
RECURSIVE someFrom(_, _, _, _)
someFrom(endpoints, options, queryKey, i) ==
    IF i > Len(queryKey) THEN [res |-> "nomatch", calls |-> {}]
    ELSE LET r == entryOutcome(endpoints, options, queryKey[i])
             c == entryCalls(endpoints, options, queryKey[i])
         IN  IF r # "nomatch" THEN [res |-> r, calls |-> c]
             ELSE LET rest == someFrom(endpoints, options, queryKey, i + 1)
                  IN  [res |-> rest.res, calls |-> c \cup rest.calls]

\* createQueryFilterFromSpec(endpoints, options).predicate(query)
predicate(endpoints, options, queryKey) == someFrom(endpoints, options, queryKey, 1)

----------------------------------------------------------------------------
(* The store: the QueryClient the hooks and cache utilities share *)

\* The store addresses a query by the hash of its key: JSON with object keys
\* sorted, in which a property holding undefined is left out.
hashObj(obj) == [k \in PKeys |-> IF obj[k] = "undefined" THEN "absent" ELSE obj[k]]

hashKey(queryKey) ==
    [i \in 1..Len(queryKey) |->
        [kind |-> queryKey[i].kind, has |-> queryKey[i].has,
         name |-> queryKey[i].name, route |-> queryKey[i].route,
         payload |-> hashObj(Content(queryKey[i].payload)),
         infinite |-> queryKey[i].infinite,
         mistyped |-> queryKey[i].mistyped]]

\* Keys of queries that other code puts in the same QueryClient
ForeignKeys == {<<e>> : e \in ForeignElems} \cup {<<Plain("string"), Plain("null")>>}

Query(queryKey, data, isInvalidated, fetching, active) ==
    [queryKey |-> queryKey, data |-> data, isInvalidated |-> isInvalidated,
     fetching |-> fetching, active |-> active]

\* `last` while no cache-utility call is being looked at: event handlers run
\* one at a time, and `last` holds what the call of the running handler did
\* until the handler returns.
Idle ==
    [op |-> "none", caller |-> "", infinite |-> FALSE, spec |-> EmptySpec,
     matched |-> {}, threwOn |-> {}, calls |-> {}, threw |-> FALSE,
     issued |-> 0, route |-> "", payload |-> NoRef, updater |-> "none",
     invoked |-> FALSE, base |-> Undefined, baseAfter |-> Undefined,
     result |-> Undefined, pairs |-> <<>>]

\* useQuery / useInfiniteQuery mounting an observer on `queryKey`: the query
\* is built and fetched when the store has none; an existing query that is
\* not being fetched is fetched again when it is invalidated, has no data or
\* is stale (staleness depends on the staleTime option and the clock).
Mount(queryKey) ==
    LET h == hashKey(queryKey) IN
    /\ last = Idle
    /\ last' = Idle
    /\ IF h \notin DOMAIN store
       THEN /\ Cardinality(DOMAIN store) < MaxEntries
            /\ store' = store @@ (h :> Query(queryKey, Undefined, FALSE, TRUE, TRUE))
       ELSE /\ ~store[h].active
            /\ \E stale \in BOOLEAN :
                 LET fetch == /\ ~store[h].fetching
                              /\ (store[h].isInvalidated \/ ~store[h].data.def \/ stale)
                 IN  store' = [store EXCEPT ![h].active = TRUE,
                                            ![h].fetching = @ \/ fetch]

useAPIQuery(name, route, payload) ==
    /\ Mount(<<createQueryKey(name, route, payload, FALSE)>>)
    /\ UNCHANGED <<combineVars, sent, mockVars>>

useInfiniteAPIQuery(name, route, initPayload) ==
    /\ Mount(<<createQueryKey(name, route, initPayload, TRUE)>>)
    /\ UNCHANGED <<combineVars, sent, mockVars>>

\* A query of other code: useQuery({ queryKey: ['some-other-key'], ... })
useReactQuery(queryKey) ==
    /\ Mount(queryKey)
    /\ UNCHANGED <<combineVars, sent, mockVars>>

\* The transport answers the request of a query being fetched
FetchResolve(h) ==
    /\ last = Idle
    /\ store[h].fetching
    /\ store' = [store EXCEPT ![h].data = ServerData,
                              ![h].isInvalidated = FALSE,
                              ![h].fetching = FALSE]
    /\ last' = Idle
    /\ UNCHANGED <<combineVars, sent, mockVars>>

----------------------------------------------------------------------------
(* Cache utilities: createCacheUtils *)

\* queryCache.findAll(filter): the filter's predicate on every query
matchedBy(spec, options) ==
    {h \in DOMAIN store : predicate(spec, options, store[h].queryKey).res = "match"}

threwOnBy(spec, options) ==
    {h \in DOMAIN store : predicate(spec, options, store[h].queryKey).res = "throw"}

callsBy(spec, options) ==
    UNION {predicate(spec, options, store[h].queryKey).calls : h \in DOMAIN store}

\* refetchQueries({ ...filter, type: 'active' }): the matched queries with an
\* observer are fetched, one transport request each; a fetch already in flight
\* is replaced by a new one when the query has data, and joined when it has
\* none.
refetched(matched, reset) ==
    {h \in matched : store[h].active /\ (reset \/ ~store[h].fetching \/ store[h].data.def)}

\* client.invalidateQueries(filter) / client.resetQueries(filter).  An
\* exception of the predicate leaves findAll before any query is touched.
clientInvalidate(op, caller, spec, options, reset) ==
    LET matched == matchedBy(spec, options)
        threwOn == threwOnBy(spec, options)
        issue == refetched(matched, reset)
    IN  /\ last = Idle
        /\ last' = [Idle EXCEPT !.op = op, !.caller = caller, !.spec = spec,
                                !.infinite = options.infinite,
                                !.matched = matched, !.threwOn = threwOn,
                                !.calls = callsBy(spec, options),
                                !.threw = (threwOn # {}),
                                !.issued = IF threwOn # {} THEN 0
                                           ELSE Cardinality(issue)]
        /\ IF threwOn # {}
           THEN UNCHANGED store
           ELSE store' =
                  [h \in DOMAIN store |->
                     IF h \notin matched THEN store[h]
                     ELSE IF reset
                     THEN [store[h] EXCEPT !.data = Undefined,
                                           !.isInvalidated = FALSE,
                                           !.fetching = store[h].active]
                     ELSE [store[h] EXCEPT !.isInvalidated = TRUE,
                                           !.fetching = @ \/ store[h].active]]
        /\ UNCHANGED <<combineVars, sent, mockVars>>

\* The utilities of src/src/cache.ts, whose filter takes no options: the key
\* of a paginated query is the key of the plain one behind the element
\* 'infinite', and the filter does not tell the two apart.
INFINITE_QUERY_KEY == Plain("string")

entryOutcomeUnflagged(endpoints, entry) ==
    IF isInternalQueryKey(entry) = "throw" THEN "throw"
    ELSE IF isInternalQueryKey(entry) = "false" THEN "nomatch"
    ELSE IF payloadsToInvalidate(endpoints, entry).kind = "absent" THEN "nomatch"
    ELSE IF matchesRule(payloadsToInvalidate(endpoints, entry), entry.payload)
    THEN "match" ELSE "nomatch"

RECURSIVE someUnflaggedFrom(_, _, _)
someUnflaggedFrom(endpoints, queryKey, i) ==
    IF i > Len(queryKey) THEN "nomatch"
    ELSE IF entryOutcomeUnflagged(endpoints, queryKey[i]) # "nomatch"
    THEN entryOutcomeUnflagged(endpoints, queryKey[i])
    ELSE someUnflaggedFrom(endpoints, queryKey, i + 1)

predicateUnflagged(endpoints, queryKey) == someUnflaggedFrom(endpoints, queryKey, 1)

clientInvalidateUnflagged(op, caller, spec, reset) ==
    LET matched == {h \in DOMAIN store : predicateUnflagged(spec, store[h].queryKey) = "match"}
        threwOn == {h \in DOMAIN store : predicateUnflagged(spec, store[h].queryKey) = "throw"}
        issue == refetched(matched, reset)
    IN  /\ last = Idle
        /\ last' = [Idle EXCEPT !.op = op, !.caller = caller, !.spec = spec,
                                !.matched = matched, !.threwOn = threwOn,
                                !.threw = (threwOn # {}),
                                !.issued = IF threwOn # {} THEN 0
                                           ELSE Cardinality(issue)]
        /\ IF threwOn # {}
           THEN UNCHANGED store
           ELSE store' =
                  [h \in DOMAIN store |->
                     IF h \notin matched THEN store[h]
                     ELSE IF reset
                     THEN [store[h] EXCEPT !.data = Undefined,
                                           !.isInvalidated = FALSE,
                                           !.fetching = store[h].active]
                     ELSE [store[h] EXCEPT !.isInvalidated = TRUE,
                                           !.fetching = @ \/ store[h].active]]
        /\ UNCHANGED <<combineVars, sent, mockVars>>

invalidateQueries(caller, spec) ==
    clientInvalidate("invalidateQueries", caller, spec, [infinite |-> FALSE], FALSE)

resetQueries(caller, spec) ==
    clientInvalidate("resetQueries", caller, spec, [infinite |-> FALSE], TRUE)

invalidateInfiniteQueries(caller, spec) ==
    clientInvalidate("invalidateInfiniteQueries", caller, spec, [infinite |-> TRUE], FALSE)

resetInfiniteQueries(caller, spec) ==
    clientInvalidate("resetInfiniteQueries", caller, spec, [infinite |-> TRUE], TRUE)

\* The updaters callers pass: a literal value, a function that mutates the
\* value it is given and returns nothing, a function that returns a new value.
Updaters == {"literal", "mutate", "return"}

\* A function updater whose result depends on the value it is given: it
\* extends the value, as current.push(...) extends a list.  The values of up
\* to two extensions are spelled out.
Appended(message) ==
    IF message = "Frodo Baggins" THEN "Frodo Baggins+"
    ELSE IF message = "Frodo Baggins+" THEN "Frodo Baggins++"
    ELSE IF message = "Samwise Gamgee" THEN "Samwise Gamgee+"
    ELSE IF message = "Samwise Gamgee+" THEN "Samwise Gamgee++"
    ELSE message

\* The updater function applied to immer's draft: the draft as it leaves the
\* call and the value returned.
recipe(updater, draft) ==
    [draft |-> IF updater = "mutate" THEN [draft EXCEPT !.message = UpdatedData.message]
               ELSE IF updater = "append" THEN [draft EXCEPT !.message = Appended(@)]
               ELSE draft,
     ret |-> IF updater = "return" THEN UpdatedData ELSE Undefined]

\* The object immer hands to the updater, in a heap whose cell `base` holds
\* the cached object: the base object itself, without a copy
draftRefOfBase(base) == base

\* The object immer hands to the updater: a draft, which is a copy of the
\* base object in a cell of its own
draftRef(base) == base + 1

\* produce(current, updater) on that heap: cell 1 is the object `current`
\* refers to, the updater works on the cell draftRef names.  `base` is what
\* the cached object holds when produce returns, `result` what produce returns.
produceOnHeap(current, updater) ==
    LET heap == [i \in {1, draftRef(1)} |-> current]
        r == recipe(updater, heap[draftRef(1)])
        after == [heap EXCEPT ![draftRef(1)] = r.draft]
    IN  [base |-> after[1],
         result |-> IF r.ret.def THEN r.ret ELSE after[draftRef(1)]]

\* produce that keeps what the updater returns and drops what it did to the
\* draft
produceReturnedOnly(current, updater) ==
    IF recipe(updater, current).ret.def
    THEN recipe(updater, current).ret
    ELSE current

\* immer's produce(current, updater): the returned value, or the draft when
\* the function returns nothing
produce(current, updater) == produceOnHeap(current, updater).result

\* The wrapper without its check of an undefined current value
updaterResultUnguarded(updater, current) ==
    IF updater = "literal" THEN UpdatedData
    ELSE produce(current, updater)

\* A wrapper that applies the updater to the value the entry first held, not
\* to the one it holds when the call runs
updaterResultOfFirstValue(updater, current) ==
    IF updater = "literal" THEN UpdatedData
    ELSE IF ~current.def THEN Undefined
    ELSE produce(ServerData, updater)

\* The second argument of setQueryData: the literal, or the wrapper that
\* leaves an undefined current value alone
updaterResult(updater, current) ==
    IF updater = "literal" THEN UpdatedData
    ELSE IF ~current.def THEN Undefined
    ELSE produce(current, updater)

updaterInvoked(updater, current) == updater # "literal" /\ current.def

\* The object that was cached before the call, as it is after the call
currentAfter(updater, current) ==
    IF updaterInvoked(updater, current)
    THEN produceOnHeap(current, updater).base
    ELSE current

\* setQueryData that also refetches the query it wrote when it is mounted
setQueryDataAndRefetch(op, caller, route, payload, updater, options) ==
    LET queryKey == <<createQueryKey(caller, route, payload, options.infinite)>>
        h == hashKey(queryKey)
        current == IF h \in DOMAIN store THEN store[h].data ELSE Undefined
        data == updaterResult(updater, current)
    IN  /\ last = Idle
        /\ last' = [Idle EXCEPT !.op = op, !.caller = caller, !.route = route,
                                !.infinite = options.infinite,
                                !.payload = payload, !.updater = updater,
                                !.invoked = updaterInvoked(updater, current),
                                !.base = current,
                                !.baseAfter = currentAfter(updater, current)]
        /\ IF ~data.def THEN UNCHANGED store
           ELSE IF h \in DOMAIN store
           THEN store' = [store EXCEPT ![h].data = data, ![h].isInvalidated = FALSE,
                                       ![h].fetching = @ \/ store[h].active]
           ELSE /\ Cardinality(DOMAIN store) < MaxEntries
                /\ store' = store @@ (h :> Query(queryKey, data, FALSE, FALSE, FALSE))
        /\ UNCHANGED <<combineVars, sent, mockVars>>

\* A write to every query of the route that the store holds, whatever its
\* payload, name and paginated flag, in place of the one the key addresses
setQueryDataOfRoute(op, caller, route, payload, updater, options) ==
    LET queryKey == <<createQueryKey(caller, route, payload, options.infinite)>>
        h == hashKey(queryKey)
        current == IF h \in DOMAIN store THEN store[h].data ELSE Undefined
        data == updaterResult(updater, current)
    IN  /\ last = Idle
        /\ last' = [Idle EXCEPT !.op = op, !.caller = caller, !.route = route,
                                !.infinite = options.infinite,
                                !.payload = payload, !.updater = updater,
                                !.invoked = updaterInvoked(updater, current),
                                !.base = current,
                                !.baseAfter = currentAfter(updater, current)]
        /\ IF ~data.def THEN UNCHANGED store
           ELSE IF h \in DOMAIN store
           THEN store' = [g \in DOMAIN store |->
                            IF store[g].queryKey[1].route = route
                            THEN [store[g] EXCEPT !.data = data, !.isInvalidated = FALSE]
                            ELSE store[g]]
           ELSE /\ Cardinality(DOMAIN store) < MaxEntries
                /\ store' = store @@ (h :> Query(queryKey, data, FALSE, FALSE, FALSE))
        /\ UNCHANGED <<combineVars, sent, mockVars>>

\* client.setQueryData(key, updater): nothing happens when the updater
\* yields undefined; otherwise the query is built when missing and its data
\* set, without a fetch.
setQueryData(op, caller, route, payload, updater, options) ==
    LET queryKey == <<createQueryKey(caller, route, payload, options.infinite)>>
        h == hashKey(queryKey)
        current == IF h \in DOMAIN store THEN store[h].data ELSE Undefined
        data == updaterResult(updater, current)
    IN  /\ last = Idle
        /\ last' = [Idle EXCEPT !.op = op, !.caller = caller, !.route = route,
                                !.infinite = options.infinite,
                                !.payload = payload, !.updater = updater,
                                !.invoked = updaterInvoked(updater, current),
                                !.base = current,
                                !.baseAfter = currentAfter(updater, current)]
        /\ IF ~data.def THEN UNCHANGED store
           ELSE IF h \in DOMAIN store
           THEN store' = [store EXCEPT ![h].data = data, ![h].isInvalidated = FALSE]
           ELSE /\ Cardinality(DOMAIN store) < MaxEntries
                /\ store' = store @@ (h :> Query(queryKey, data, FALSE, FALSE, FALSE))
        /\ UNCHANGED <<combineVars, sent, mockVars>>

updateCache(caller, route, payload, updater) ==
    setQueryData("updateCache", caller, route, payload, updater, [infinite |-> FALSE])

updateInfiniteCache(caller, route, payload, updater) ==
    setQueryData("updateInfiniteCache", caller, route, payload, updater, [infinite |-> TRUE])

\* A lookup by the key the query was built with, in place of its hash
clientGetQueryDataByReference(queryKey) ==
    IF /\ hashKey(queryKey) \in DOMAIN store
       /\ store[hashKey(queryKey)].queryKey = queryKey
    THEN store[hashKey(queryKey)].data
    ELSE Undefined

\* client.getQueryData(queryKey): the data of the query the store holds
\* under the hash of the key, undefined when it holds none
clientGetQueryData(queryKey) ==
    IF hashKey(queryKey) \in DOMAIN store
    THEN store[hashKey(queryKey)].data
    ELSE Undefined

\* getQueryData / getInfiniteQueryData: a read of the one entry of
\* (name, route, payload); `options.infinite` stands for the 'infinite' key
\* prefix.
readQueryData(op, caller, route, payload, options) ==
    /\ last = Idle
    /\ last' = [Idle EXCEPT !.op = op, !.caller = caller, !.route = route,
                            !.infinite = options.infinite, !.payload = payload,
                            !.result = clientGetQueryData(
                                <<createQueryKey(caller, route, payload,
                                                 options.infinite)>>)]
    /\ UNCHANGED <<store, combineVars, sent, mockVars>>

getQueryData(caller, route, payload) ==
    readQueryData("getQueryData", caller, route, payload, [infinite |-> FALSE])

getInfiniteQueryData(caller, route, payload) ==
    readQueryData("getInfiniteQueryData", caller, route, payload, [infinite |-> TRUE])

\* client.getQueriesData(createQueryFilterFromSpec({ [route]: 'all' })),
\* filtered on the 'infinite' key prefix and mapped to { payload, data }: one
\* pair per query found, the payload read from the key's first element.  An
\* exception of the predicate leaves the call without a value.
readQueriesData(op, caller, route, options) ==
    LET spec == [EmptySpec EXCEPT ![route] = All]
        found == matchedBy(spec, options)
        threw == threwOnBy(spec, options) # {}
    IN  /\ last = Idle
        /\ last' = [Idle EXCEPT !.op = op, !.caller = caller, !.route = route,
                                !.infinite = options.infinite, !.threw = threw,
                                !.pairs = IF threw THEN <<>>
                                          ELSE [h \in found |->
                                                  [payload |-> store[h].queryKey[1].payload,
                                                   data |-> store[h].data]]]
        /\ UNCHANGED <<store, combineVars, sent, mockVars>>

getQueriesData(caller, route) ==
    readQueriesData("getQueriesData", caller, route, [infinite |-> FALSE])

getInfiniteQueriesData(caller, route) ==
    readQueriesData("getInfiniteQueriesData", caller, route, [infinite |-> TRUE])

\* The event handler that called the cache utility returns
HandlerReturns ==
    /\ last # Idle
    /\ last' = Idle
    /\ UNCHANGED <<store, combineVars, sent, mockVars>>

----------------------------------------------------------------------------
(* The result combinator: src/src/combination.ts *)

\* The data the combined queries resolve to
Responses == {"A", "B"}

\* A QueryObserverResult, as far as combineQueries reads it
Result(status, data, isFetching) ==
    [status |-> status, data |-> data, isFetching |-> isFetching,
     isRefetching |-> isFetching /\ status # "pending"]

NoData == [def |-> FALSE, list |-> <<>>]

\* base with every() in place of some()
baseOfEvery(qs) ==
    [isFetching |-> \A i \in 1..Len(qs) : qs[i].isFetching,
     isRefetching |-> \A i \in 1..Len(qs) : qs[i].isRefetching]

\* The fields every result carries
baseOf(qs) ==
    [isFetching |-> \E i \in 1..Len(qs) : qs[i].isFetching,
     isRefetching |-> \E i \in 1..Len(qs) : qs[i].isRefetching]

Combined(qs, status, isPending, isError, data) ==
    [isFetching |-> baseOf(qs).isFetching, isRefetching |-> baseOf(qs).isRefetching,
     status |-> status, isPending |-> isPending, data |-> data,
     isError |-> isError, queries |-> qs]

errorResult(qs) == Combined(qs, "error", FALSE, TRUE, NoData)

loadingResult(qs) == Combined(qs, "loading", TRUE, FALSE, NoData)

\* A success result whose data lists the queries' data last to first
successResultReversed(qs) ==
    Combined(qs, "success", FALSE, FALSE,
             [def |-> TRUE, list |-> [i \in 1..Len(qs) |-> qs[Len(qs) + 1 - i].data]])

successResult(qs) ==
    Combined(qs, "success", FALSE, FALSE,
             [def |-> TRUE, list |-> [i \in 1..Len(qs) |-> qs[i].data]])

\* combineQueries that takes a list without queries for one still pending
combineQueriesEmptyPending(qs) ==
    IF \E i \in 1..Len(qs) : qs[i].status = "error" THEN errorResult(qs)
    ELSE IF qs = <<>> \/ \E i \in 1..Len(qs) : qs[i].status = "pending"
    THEN loadingResult(qs)
    ELSE successResult(qs)

\* combineQueries with the pending check made before the error check
combineQueriesPendingFirst(qs) ==
    IF \E i \in 1..Len(qs) : qs[i].status = "pending" THEN loadingResult(qs)
    ELSE IF \E i \in 1..Len(qs) : qs[i].status = "error" THEN errorResult(qs)
    ELSE successResult(qs)

combineQueries(qs) ==
    IF \E i \in 1..Len(qs) : qs[i].status = "error" THEN errorResult(qs)
    ELSE IF \E i \in 1..Len(qs) : qs[i].status = "pending" THEN loadingResult(qs)
    ELSE successResult(qs)

\* refetchAll that leaves out the queries in error
refetchTargetsNotInError(qs) == {i \in 1..Len(qs) : qs[i].status # "error"}

\* refetchAll whose refetches put each query back in the pending state
\* without data
refetchAllFromPending ==
    /\ \A i \in 1..Len(queries) : refetches[i] < MaxRefetches
    /\ refetches' = [i \in 1..Len(queries) |-> refetches[i] + 1]
    /\ queries' = [i \in 1..Len(queries) |-> Result("pending", Undefined, TRUE)]
    /\ combined' = combineQueries(queries')
    /\ UNCHANGED <<cacheVars, sent, mockVars>>

\* The queries refetchAll calls refetch() on
refetchTargets(qs) == 1..Len(qs)

\* refetchAll(): query.refetch() on each query, none awaited.  A refetch puts
\* the query in the fetching state; the component renders again.
refetchAll ==
    /\ \A i \in 1..Len(queries) : refetches[i] < MaxRefetches
    /\ refetches' = [i \in 1..Len(queries) |->
                        IF i \in refetchTargets(queries) THEN refetches[i] + 1
                        ELSE refetches[i]]
    /\ queries' = [i \in 1..Len(queries) |->
                        IF i \in refetchTargets(queries)
                        THEN Result(queries[i].status, queries[i].data, TRUE)
                        ELSE queries[i]]
    /\ combined' = combineQueries(queries')
    /\ UNCHANGED <<cacheVars, sent, mockVars>>

\* The fetch of query i succeeds with `response`; the component renders again.
QuerySucceeds(i, response) ==
    /\ queries[i].isFetching
    /\ queries' = [queries EXCEPT ![i] = Result("success", Def(response), FALSE)]
    /\ combined' = combineQueries(queries')
    /\ UNCHANGED <<refetches, cacheVars, sent, mockVars>>

\* The fetch of query i fails: the query keeps the data it had.
QueryFails(i) ==
    /\ queries[i].isFetching
    /\ queries' = [queries EXCEPT ![i] = Result("error", queries[i].data, FALSE)]
    /\ combined' = combineQueries(queries')
    /\ UNCHANGED <<refetches, cacheVars, sent, mockVars>>

----------------------------------------------------------------------------
(* The transport client: APIClient of src/src/util.ts *)

\* Strings are sequences of characters.
GET == <<"G", "E", "T">>
DELETE == <<"D", "E", "L", "E", "T", "E">>

\* 'GET /items/:id', 'POST /items', 'PUT /list'
RequestRoutes ==
    {<<"G", "E", "T", " ", "/", "i", "t", "e", "m", "s", "/", ":", "i", "d">>,
     <<"P", "O", "S", "T", " ", "/", "i", "t", "e", "m", "s">>,
     <<"P", "U", "T", " ", "/", "l", "i", "s", "t">>}

\* Property names of payloads: 'id', 'filter', and 'i', a name that a
\* parameter's name begins with
PayloadNames == {<<"i", "d">>, <<"f", "i", "l", "t", "e", "r">>, <<"i">>}

\* Property values: a string, undefined, or (as an array's item) an object
Value(kind, str) == [kind |-> kind, str |-> str]

UndefinedValue == Value("undefined", <<>>)

PayloadValues == {Value("string", <<"1">>), Value("string", <<"a", "/">>), UndefinedValue}

\* An object is the sequence of its own properties in insertion order, an
\* array the sequence of its items under their indices.
Payload(kind, entries) == [kind |-> kind, entries |-> entries]

Entry(name, value) == [name |-> name, value |-> value]

NoPayload == Payload("absent", <<>>)

\* String.prototype.includes
includes(str, needle) ==
    \E i \in 1..(Len(str) - Len(needle) + 1) :
        SubSeq(str, i, i + Len(needle) - 1) = needle

\* String.prototype.replace with a string pattern: the first occurrence
replace(str, needle, by) ==
    IF ~includes(str, needle) THEN str
    ELSE LET i == CHOOSE i \in 1..(Len(str) - Len(needle) + 1) :
                     /\ SubSeq(str, i, i + Len(needle) - 1) = needle
                     /\ \A j \in 1..(i - 1) : SubSeq(str, j, j + Len(needle) - 1) # needle
         IN  SubSeq(str, 1, i - 1) \o by \o SubSeq(str, i + Len(needle), Len(str))

\* String.prototype.split with a one-character separator
RECURSIVE splitFrom(_, _, _, _)
splitFrom(str, sep, i, piece) ==
    IF i > Len(str) THEN <<piece>>
    ELSE IF str[i] = sep THEN <<piece>> \o splitFrom(str, sep, i + 1, <<>>)
    ELSE splitFrom(str, sep, i + 1, Append(piece, str[i]))

split(str, sep) == splitFrom(str, sep, 1, <<>>)

\* String(value)
toString(value) ==
    IF value.kind = "undefined" THEN <<"u", "n", "d", "e", "f", "i", "n", "e", "d">>
    ELSE IF value.kind = "object"
    THEN <<"[", "o", "b", "j", "e", "c", "t", " ", "O", "b", "j", "e", "c", "t", "]">>
    ELSE value.str

\* encodeURIComponent: letters and digits stay, other characters are
\* percent-encoded
escape(c) ==
    IF c = "/" THEN <<"%", "2", "F">>
    ELSE IF c = ":" THEN <<"%", "3", "A">>
    ELSE IF c = " " THEN <<"%", "2", "0">>
    ELSE IF c = "[" THEN <<"%", "5", "B">>
    ELSE IF c = "]" THEN <<"%", "5", "D">>
    ELSE <<c>>

RECURSIVE encodeFrom(_, _)
encodeFrom(str, i) ==
    IF i > Len(str) THEN <<>> ELSE escape(str[i]) \o encodeFrom(str, i + 1)

encodeURIComponent(value) == encodeFrom(toString(value), 1)

\* Object.entries(params).reduce((url, [name, value]) =>
\*     url.replace(':' + name, encodeURIComponent(value)), route)
RECURSIVE substituteFrom(_, _, _)
substituteFrom(url, entries, i) ==
    IF i > Len(entries) THEN url
    ELSE substituteFrom(replace(url, <<":">> \o entries[i].name,
                                encodeURIComponent(entries[i].value)),
                        entries, i + 1)

substitutePathParams(route, params) == substituteFrom(route, params.entries, 1)

\* An array is returned as it is; of an object, the properties holding
\* undefined are dropped, then those for which route.includes(':' + name).
removePathParamsFromRequestPayload(route, payload) ==
    IF payload.kind = "array" THEN payload
    ELSE Payload("object",
           SelectSeq(SelectSeq(payload.entries, LAMBDA e : e.value # UndefinedValue),
                     LAMBDA e : ~includes(route, <<":">> \o e.name)))

NoRequest ==
    [route |-> <<>>, payload |-> NoPayload, method |-> <<>>, url |-> <<>>,
     params |-> NoPayload, data |-> NoPayload]

\* The config APIClient.request hands to axiosClient.request
axiosConfig(route, payload) ==
    LET method == split(route, " ")[1]
        url == split(route, " ")[2]
        requestPayload == removePathParamsFromRequestPayload(url, payload)
    IN  [route |-> route, payload |-> payload,
         method |-> method,
         url |-> substitutePathParams(url, payload),
         params |-> IF method \in {GET, DELETE} THEN requestPayload
                    ELSE NoPayload,
         data |-> IF method \in {GET, DELETE} THEN NoPayload
                  ELSE requestPayload]

\* APIClient.request(route, payload)
request(route, payload) ==
    /\ sent' = axiosConfig(route, payload)
    /\ UNCHANGED <<cacheVars, combineVars, mockVars>>

----------------------------------------------------------------------------
(* Paginated queries: the pages of useInfiniteAPIQuery *)

\* The strings of the cache's values, as sequences of characters
Chars(str) ==
    CASE str = "GET /list" -> <<"G", "E", "T", " ", "/", "l", "i", "s", "t">>
      [] str = "GET /items/:id" ->
            <<"G", "E", "T", " ", "/", "i", "t", "e", "m", "s", "/", ":", "i", "d">>
      [] str = "id" -> <<"i", "d">>
      [] str = "filter" -> <<"f", "i", "l", "t", "e", "r">>
      [] str = "1" -> <<"1">>
      [] str = "2" -> <<"2">>

\* An object of PayloadHeap as a request payload, its properties in the
\* order the objects are written with
toPayload(obj) ==
    LET own == SelectSeq(<<"id", "filter">>, LAMBDA k : obj[k] # "absent") IN
    Payload("object",
        [i \in 1..Len(own) |->
            Entry(Chars(own[i]),
                  IF obj[own[i]] = "undefined" THEN UndefinedValue
                  ELSE Value("string", Chars(obj[own[i]])))])

\* { ...a, ...b } in which a property of b never replaces one of a
spreadKeepingFirst(a, b) ==
    Payload("object",
        a.entries \o
        SelectSeq(b.entries,
                  LAMBDA e : ~\E i \in 1..Len(a.entries) : a.entries[i].name = e.name))

\* { ...a, ...b }: the properties of a, each holding b's value when b has a
\* property of that name, then the properties that only b has
spread(a, b) ==
    LET at(n) == CHOOSE j \in 1..Len(b.entries) : b.entries[j].name = n
        inB(n) == \E j \in 1..Len(b.entries) : b.entries[j].name = n
        inA(n) == \E i \in 1..Len(a.entries) : a.entries[i].name = n
    IN  Payload("object",
            [i \in 1..Len(a.entries) |->
                IF inB(a.entries[i].name) THEN b.entries[at(a.entries[i].name)]
                ELSE a.entries[i]]
            \o SelectSeq(b.entries, LAMBDA e : ~inA(e.name)))

\* options.initialPageParam: {}
initialPageParam == Payload("object", <<>>)

\* What options.getNextPageParam and options.getPreviousPageParam return:
\* { filter: '2' } and { id: '1' }
NextPageParams == {Payload("object", <<Entry(Chars("filter"), Value("string", Chars("2")))>>)}

PreviousPageParams == {Payload("object", <<Entry(Chars("id"), Value("string", Chars("1")))>>)}

\* A paginated query: data.pages and data.pageParams, and while a page is
\* being fetched the direction and page parameter of the fetch.  A page is
\* written as the payload of the request that it answers.
InfiniteQuery(queryKey, pages, pageParams, fetching, direction, pageParam) ==
    [queryKey |-> queryKey, pages |-> pages, pageParams |-> pageParams,
     fetching |-> fetching, direction |-> direction, pageParam |-> pageParam]

\* queryFn({ pageParam }): the payload that client.request is called with
queryFnPayload(initPayload, pageParam) == spread(toPayload(Content(initPayload)), pageParam)

\* useInfiniteAPIQuery(route, initPayload, options) mounting on a store that
\* has no query under its key: the first page is fetched
useInfiniteQuery(name, route, initPayload) ==
    LET queryKey == <<createQueryKey(name, route, initPayload, TRUE)>>
        h == hashKey(queryKey)
    IN  /\ h \notin DOMAIN store
        /\ Cardinality(DOMAIN store) < MaxEntries
        /\ store' = store @@
              (h :> InfiniteQuery(queryKey, <<>>, <<>>, TRUE, "forward", initialPageParam))
        /\ sent' = axiosConfig(Chars(route), queryFnPayload(initPayload, initialPageParam))
        /\ UNCHANGED <<last, combineVars, mockVars>>

\* query.fetchNextPage() / query.fetchPreviousPage() of the hook mounted on h
fetchPage(h, direction, pageParam) ==
    /\ ~store[h].fetching
    /\ Len(store[h].pages) \in 1..(MaxPages - 1)
    /\ store' = [store EXCEPT ![h].fetching = TRUE,
                              ![h].direction = direction,
                              ![h].pageParam = pageParam]
    /\ sent' = axiosConfig(Chars(store[h].queryKey[1].route),
                           queryFnPayload(store[h].queryKey[1].payload, pageParam))
    /\ UNCHANGED <<last, combineVars, mockVars>>

\* The transport answers the page request of h: the page is added after the
\* pages held when fetched forward, before them when fetched backward
PageResolve(h) ==
    LET page == queryFnPayload(store[h].queryKey[1].payload, store[h].pageParam) IN
    /\ store[h].fetching
    /\ store' =
          [store EXCEPT
             ![h].fetching = FALSE,
             ![h].pages = IF store[h].direction = "backward" THEN <<page>> \o @
                          ELSE Append(@, page),
             ![h].pageParams = IF store[h].direction = "backward"
                               THEN <<store[h].pageParam>> \o @
                               ELSE Append(@, store[h].pageParam)]
    /\ UNCHANGED <<last, combineVars, sent, mockVars>>

----------------------------------------------------------------------------
(* Request mocking: createAPIMocker *)

MockRoutes == {"GET /items", "GET /list"}

\* APIMockerResponse: { status, data: { message } }
Response(status, message) == [status |-> status, message |-> message]

\* The static response a test passes to api.mock
MockResponses == {Response(404, 0)}

\* The lists a test passes to api.mockOrdered:
\* [{ status: 200, data: { message: '1' } }, { ... '2' }, ...]
OrderedLists == {[k \in 1..n |-> Response(200, k)] : n \in 0..MaxResponses}

\* A handler registered with server.use: `once` handlers answer one request.
\* `call` numbers the mock or mockOrdered call that registered it, `index`
\* is the place of its response in the list of that call (0 for api.mock).
Handler(route, response, once, call, index) ==
    [route |-> route, response |-> response, once |-> once, used |-> FALSE,
     call |-> call, index |-> index]

NoMocks == [r \in MockRoutes |-> [call |-> 0, list |-> <<>>, received |-> <<>>]]

Received(response, call, index) == [response |-> response, call |-> call, index |-> index]

nextCall ==
    1 + Cardinality({c \in 1..MaxCalls : \E i \in 1..Len(handlers) : handlers[i].call = c})

\* createMocker(options)(route, handlerOrResponse): server.use(handler), the
\* handler being tried before those registered earlier
createMocker(hs, once, route, response, call, index) ==
    <<Handler(route, response, once, call, index)>> \o hs

\* A reverse that leaves the array as it is
reverseNothing(list) == list

\* Array.prototype.reverse
reverse(list) == [i \in 1..Len(list) |-> list[Len(list) + 1 - i]]

\* for (const handlerOrResponse of list) mockOnce(route, handlerOrResponse)
RECURSIVE mockOnceEach(_, _, _, _, _)
mockOnceEach(hs, route, list, call, i) ==
    IF i > Len(list) THEN hs
    ELSE mockOnceEach(createMocker(hs, TRUE, route, list[i].response, call, list[i].index),
                      route, list, call, i + 1)

\* api.mock(route, response)
mock(route, response) ==
    /\ nextCall <= MaxCalls
    /\ handlers' = createMocker(handlers, FALSE, route, response, nextCall, 0)
    /\ mocked' = [mocked EXCEPT ![route] = [call |-> nextCall, list |-> <<>>,
                                            received |-> <<>>]]
    /\ UNCHANGED <<cacheVars, combineVars, sent>>

\* api.mockOrdered(route, handlerOrResponses)
mockOrdered(route, handlerOrResponses) ==
    LET indexed == [k \in 1..Len(handlerOrResponses) |->
                       [response |-> handlerOrResponses[k], index |-> k]]
    IN  /\ nextCall <= MaxCalls
        /\ handlers' = mockOnceEach(handlers, route, reverse(indexed), nextCall, 1)
        /\ mocked' = [mocked EXCEPT ![route] = [call |-> nextCall,
                                                list |-> handlerOrResponses,
                                                received |-> <<>>]]
        /\ UNCHANGED <<cacheVars, combineVars, sent>>

\* api.reset(): server.resetHandlers()
reset ==
    /\ handlers # <<>>
    /\ handlers' = <<>>
    /\ mocked' = NoMocks
    /\ UNCHANGED <<cacheVars, combineVars, sent>>

\* The server receives a request to `route`: the first handler of the route
\* that is not a used `once` handler answers it; a request that no handler
\* answers ends without a response of the mocks, written Response(0, 0)
HandleRequest(route) ==
    LET live == {i \in 1..Len(handlers) :
                    /\ handlers[i].route = route
                    /\ ~(handlers[i].once /\ handlers[i].used)}
        first == CHOOSE i \in live : \A j \in live : i <= j
    IN  /\ Len(mocked[route].received) <= MaxResponses
        /\ IF live = {}
           THEN /\ UNCHANGED handlers
                /\ mocked' = [mocked EXCEPT ![route].received =
                                 Append(@, Received(Response(0, 0), 0, 0))]
           ELSE /\ handlers' = [handlers EXCEPT ![first].used = TRUE]
                /\ mocked' = [mocked EXCEPT ![route].received =
                                 Append(@, Received(handlers[first].response,
                                                    handlers[first].call,
                                                    handlers[first].index))]
        /\ UNCHANGED <<cacheVars, combineVars, sent>>

----------------------------------------------------------------------------
(* Specifications *)

\* The cache: the components of an application mounting queries on one
\* QueryClient, the transport answering, and event handlers calling the
\* cache utilities of useAPICache.
Init ==
    /\ store = <<>>
    /\ last = Idle
    /\ queries = <<>>
    /\ combined = combineQueries(<<>>)
    /\ refetches = <<>>
    /\ sent = NoRequest
    /\ handlers = <<>>
    /\ mocked = NoMocks

\* The hook calls of the application's components: <<name, route, payload>>
QueryCalls ==
    {<<"A", "GET /items/:id", 1>>, <<"A", "GET /items/:id", 2>>,
     <<"A", "GET /list", 1>>, <<"B", "GET /items/:id", 1>>}

\* The entries its event handlers update: <<name, route, payload>>
UpdateCalls ==
    {<<"A", "GET /items/:id", 3>>, <<"A", "GET /items/:id", 2>>,
     <<"B", "GET /items/:id", 1>>}

InfiniteUpdateCalls == {<<"A", "GET /items/:id", 1>>}

\* The specs its event handlers pass; the paginated utilities are called by
\* A's handlers, whose components mount the paginated query
HandlerSpecs ==
    {s \in Specs : \/ /\ s["GET /items/:id"] \in {Absent, All, List(<<3>>), Fn("idIs1")}
                      /\ s["GET /list"] = Absent
                   \/ /\ s["GET /items/:id"] = Absent
                      /\ s["GET /list"] = All}

Next ==
    \/ \E c \in QueryCalls : useAPIQuery(c[1], c[2], c[3])
    \/ useInfiniteAPIQuery("A", "GET /items/:id", 1)
    \/ useReactQuery(<<Plain("string")>>)
    \/ \E h \in DOMAIN store : FetchResolve(h)
    \/ \E c \in Names, s \in HandlerSpecs : invalidateQueries(c, s)
    \/ \E c \in Names, s \in HandlerSpecs : resetQueries(c, s)
    \/ \E s \in HandlerSpecs : invalidateInfiniteQueries("A", s)
    \/ \E s \in HandlerSpecs : resetInfiniteQueries("A", s)
    \/ \E c \in UpdateCalls, u \in Updaters : updateCache(c[1], c[2], c[3], u)
    \/ \E c \in InfiniteUpdateCalls, u \in Updaters : updateInfiniteCache(c[1], c[2], c[3], u)
    \/ HandlerReturns

Spec == Init /\ [][Next]_vars

\* The matcher: one invalidate or reset call of the hooks created with name
\* "A", with any spec, on a store that holds up to MaxEntries queries of
\* these hooks, of the hooks created with name "B" and of other code, each
\* mounted and fetched once.
HookKeys ==
    {<<createQueryKey(n, r, p, i)>> :
        n \in Names, r \in Routes, p \in MountRefs, i \in BOOLEAN}

KeySets == {ks \in SUBSET (HookKeys \cup ForeignKeys) : Cardinality(ks) <= MaxEntries}

InitMatch ==
    /\ \E ks \in KeySets :
          store = [h \in {hashKey(k) : k \in ks} |->
                     Query(CHOOSE k \in ks : hashKey(k) = h, ServerData, FALSE, FALSE, TRUE)]
    /\ last = Idle
    /\ queries = <<>>
    /\ combined = combineQueries(<<>>)
    /\ refetches = <<>>
    /\ sent = NoRequest
    /\ handlers = <<>>
    /\ mocked = NoMocks

NextMatch ==
    \/ \E s \in Specs : invalidateQueries("A", s)
    \/ \E s \in Specs : resetQueries("A", s)
    \/ \E s \in Specs : invalidateInfiniteQueries("A", s)
    \/ \E s \in Specs : resetInfiniteQueries("A", s)

SpecMatch == InitMatch /\ [][NextMatch]_vars

\* The reads: event handlers of the hooks created with name "A" updating and
\* reading entries of that store.
ReadCalls == {<<"A", "GET /items/:id", 1>>, <<"A", "GET /items/:id", 3>>,
              <<"A", "GET /list", 2>>}

NextRead ==
    \/ \E c \in ReadCalls : getQueryData(c[1], c[2], c[3])
    \/ \E c \in ReadCalls : getInfiniteQueryData(c[1], c[2], c[3])
    \/ \E r \in Routes : getQueriesData("A", r)
    \/ \E r \in Routes : getInfiniteQueriesData("A", r)
    \/ \E c \in UpdateCalls, u \in Updaters : updateCache(c[1], c[2], c[3], u)
    \/ \E c \in InfiniteUpdateCalls, u \in Updaters : updateInfiniteCache(c[1], c[2], c[3], u)
    \/ HandlerReturns

SpecRead == InitMatch /\ [][NextRead]_vars

\* The transport client: requests for the routes above with object payloads
\* of up to MaxKeys properties and arrays of up to one item.
RECURSIVE EntriesOf(_)
EntriesOf(n) ==
    IF n = 0 THEN {<<>>}
    ELSE EntriesOf(n - 1) \cup
         {Append(es, Entry(name, v)) :
             es \in {es \in EntriesOf(n - 1) : Len(es) = n - 1},
             name \in PayloadNames, v \in PayloadValues}

DistinctNames(es) == \A i, j \in 1..Len(es) : es[i].name = es[j].name => i = j

RequestPayloads ==
    {Payload("object", es) : es \in {es \in EntriesOf(MaxKeys) : DistinctNames(es)}}
    \cup {Payload("array", <<>>), Payload("array", <<Entry(<<"0">>, Value("object", <<>>))>>)}

InitRequest ==
    /\ store = <<>>
    /\ last = Idle
    /\ queries = <<>>
    /\ combined = combineQueries(<<>>)
    /\ refetches = <<>>
    /\ sent = NoRequest
    /\ handlers = <<>>
    /\ mocked = NoMocks

NextRequest == \E route \in RequestRoutes, payload \in RequestPayloads : request(route, payload)

SpecRequest == InitRequest /\ [][NextRequest]_vars

\* The recognizer: one invalidate or reset call on a store that holds up to
\* MaxEntries queries, of these hooks and of other code, among them queries
\* whose key is an object with the four properties and a value of another
\* type in one of them: a number as name ({ name: 42, route: 'GET /list',
\* payload, infinite: false }) or as route ({ name: 'A', route: 5, ... }; an
\* object is indexed by the number's string).
RecognizeKeys ==
    {<<[createQueryKey("42", "GET /list", 1, FALSE) EXCEPT !.mistyped = {"name"}]>>,
     <<[createQueryKey("A", "5", 1, FALSE) EXCEPT !.mistyped = {"route"}]>>}
    \cup {<<createQueryKey("A", r, 1, FALSE)>> : r \in Routes}
    \cup {<<Plain("string")>>, <<Elem("object", KeyFields \ {"infinite"}, "A", "GET /list", 1, FALSE)>>}

InitRecognize ==
    /\ \E ks \in {ks \in SUBSET RecognizeKeys : Cardinality(ks) <= MaxEntries} :
          store = [h \in {hashKey(k) : k \in ks} |->
                     Query(CHOOSE k \in ks : hashKey(k) = h, ServerData, FALSE, FALSE, TRUE)]
    /\ last = Idle
    /\ queries = <<>>
    /\ combined = combineQueries(<<>>)
    /\ refetches = <<>>
    /\ sent = NoRequest
    /\ handlers = <<>>
    /\ mocked = NoMocks

NextRecognize ==
    \/ \E s \in HandlerSpecs : invalidateQueries("A", s)
    \/ \E s \in HandlerSpecs : resetQueries("A", s)

SpecRecognize == InitRecognize /\ [][NextRecognize]_vars

\* Successive updates: call sites updating the entries of mounted queries
\* with function updaters, in any order and any number of times while the
\* value can be extended.
CanAppend(h) ==
    h \in DOMAIN store =>
        store[h].data.message \in
            {"", "Frodo Baggins", "Frodo Baggins+", "Samwise Gamgee", "Samwise Gamgee+"}

NextSuccessive ==
    \/ \E p \in MountRefs : useAPIQuery("A", "GET /items/:id", p)
    \/ \E h \in DOMAIN store : FetchResolve(h)
    \/ \E p \in {1, 3, 2}, u \in {"append", "mutate", "return"} :
          /\ u = "append" => CanAppend(hashKey(<<createQueryKey("A", "GET /items/:id", p, FALSE)>>))
          /\ updateCache("A", "GET /items/:id", p, u)
    \/ HandlerReturns

SpecSuccessive == Init /\ [][NextSuccessive]_vars

\* The utilities of src/src/cache.ts: one invalidate or reset call on a store
\* that holds up to MaxEntries mounted and fetched queries, plain ones and
\* paginated ones under the 'infinite' prefix, and queries of other code.
PrefixedKeys ==
    {<<createQueryKey("A", r, p, FALSE)>> : r \in Routes, p \in MountRefs}
    \cup {<<INFINITE_QUERY_KEY, createQueryKey("A", r, p, FALSE)>> : r \in Routes, p \in MountRefs}
    \cup {<<Plain("number")>>, <<Plain("string"), Plain("null")>>}

InitPrefixed ==
    /\ \E ks \in {ks \in SUBSET PrefixedKeys : Cardinality(ks) <= MaxEntries} :
          store = [h \in {hashKey(k) : k \in ks} |->
                     Query(CHOOSE k \in ks : hashKey(k) = h, ServerData, FALSE, FALSE, TRUE)]
    /\ last = Idle
    /\ queries = <<>>
    /\ combined = combineQueries(<<>>)
    /\ refetches = <<>>
    /\ sent = NoRequest
    /\ handlers = <<>>
    /\ mocked = NoMocks

NextPrefixed ==
    \/ \E s \in HandlerSpecs : clientInvalidateUnflagged("invalidateQueries", "A", s, FALSE)
    \/ \E s \in HandlerSpecs : clientInvalidateUnflagged("resetQueries", "A", s, TRUE)

SpecPrefixed == InitPrefixed /\ [][NextPrefixed]_vars

\* Pagination: components mounting paginated queries of 'GET /list', their
\* buttons fetching next and previous pages, and the transport answering.
InfiniteCalls == {<<"A", "GET /list", 4>>, <<"A", "GET /list", 2>>}

NextPages ==
    \/ \E c \in InfiniteCalls : useInfiniteQuery(c[1], c[2], c[3])
    \/ \E h \in DOMAIN store, pageParam \in NextPageParams :
          fetchPage(h, "forward", pageParam)      \* query.fetchNextPage()
    \/ \E h \in DOMAIN store, pageParam \in PreviousPageParams :
          fetchPage(h, "backward", pageParam)     \* query.fetchPreviousPage()
    \/ \E h \in DOMAIN store : PageResolve(h)

SpecPages == Init /\ [][NextPages]_vars

\* Mocking: a test mocking routes, resetting the mocks, and its client's
\* requests reaching the server.
NextMock ==
    \/ \E route \in MockRoutes, response \in MockResponses : mock(route, response)
    \/ \E route \in MockRoutes, list \in OrderedLists : mockOrdered(route, list)
    \/ reset
    \/ \E route \in MockRoutes : HandleRequest(route)

SpecMock == Init /\ [][NextMock]_vars

\* Properties holding undefined: a component mounting the query of
\* 'GET /items/:id' with { id: '1' } or with { id: '1', filter: undefined },
\* handlers invalidating it with a list of one of the two, and the client
\* sending requests whose payloads hold such properties.
UndefinedCalls == {<<"A", "GET /items/:id", 1>>, <<"A", "GET /items/:id", 4>>}

NextUndefined ==
    \/ \E c \in UndefinedCalls : useAPIQuery(c[1], c[2], c[3])
    \/ \E h \in DOMAIN store : FetchResolve(h)
    \/ \E c \in UndefinedCalls :
          invalidateQueries("A", [EmptySpec EXCEPT !["GET /items/:id"] = List(<<c[3]>>)])
    \/ \E route \in RequestRoutes,
            payload \in {p \in RequestPayloads :
                            /\ p.kind = "object"
                            /\ \A i \in 1..Len(p.entries) :
                                  /\ p.entries[i].name # <<"i">>
                                  /\ p.entries[i].value.str \in {<<>>, <<"1">>}} :
          request(route, payload)
    \/ HandlerReturns

SpecUndefined == Init /\ [][NextUndefined]_vars

\* The combinator: useCombinedAPIQueries over 0..MaxQueries queries, each
\* first rendered pending and fetching.
InitCombine ==
    /\ store = <<>>
    /\ last = Idle
    /\ \E n \in 0..MaxQueries :
          /\ queries = [i \in 1..n |-> Result("pending", Undefined, TRUE)]
          /\ refetches = [i \in 1..n |-> 0]
    /\ combined = combineQueries(queries)
    /\ sent = NoRequest
    /\ handlers = <<>>
    /\ mocked = NoMocks

NextCombine ==
    \/ refetchAll
    \/ \E i \in 1..Len(queries), response \in Responses : QuerySucceeds(i, response)
    \/ \E i \in 1..Len(queries) : QueryFails(i)

SpecCombine == InitCombine /\ [][NextCombine]_vars

\* Refetching: the combined queries against a server that answers every
\* request, the k-th request of query i with a response of its own; the
\* answers arrive in any order, and refetchAll() is called at any time.
ResponseOf(i, k) == <<i, k>>

Answered(i) ==
    /\ i \in 1..Len(queries)
    /\ QuerySucceeds(i, ResponseOf(i, refetches[i] + 1))

NextRefetch ==
    \/ refetchAll
    \/ \E i \in 1..MaxQueries : Answered(i)

SpecRefetch ==
    /\ InitCombine
    /\ [][NextRefetch]_vars
    /\ \A i \in 1..MaxQueries : WF_vars(Answered(i))

----------------------------------------------------------------------------
(* Properties of the combinator, checked under SpecCombine *)

AnyStatus(status) == \E i \in 1..Len(queries) : queries[i].status = status

InError == combined.isError
InPending == combined.isPending /\ ~combined.isError
InSuccess == ~combined.isError /\ ~combined.isPending

\* C1: combineQueries applies the precedence error > pending > success: the
\* aggregate is in the error state iff some query has status error, in the
\* pending state iff none is in error and some query is pending, and in the
\* success state iff every query has succeeded.
C1_Precedence ==
    /\ InError <=> AnyStatus("error")
    /\ InPending <=> (~AnyStatus("error") /\ AnyStatus("pending"))
    /\ InSuccess <=> \A i \in 1..Len(queries) : queries[i].status = "success"
    /\ combined.status = "error" <=> InError
    /\ combined.status = "success" <=> InSuccess

\* An error query next to a pending and a succeeded one: the aggregate is error
C1_Witness ==
    /\ AnyStatus("error") /\ AnyStatus("pending") /\ AnyStatus("success")
    /\ InError

\* C2: the aggregate data is defined only in the success state, where it is
\* the list of the queries' data, of the same length and in the same order;
\* in the error and pending states it is undefined.
C2_DataInOrder ==
    /\ combined.data.def <=> InSuccess
    /\ InSuccess =>
         /\ Len(combined.data.list) = Len(queries)
         /\ \A i \in 1..Len(queries) : combined.data.list[i] = queries[i].data
    /\ ~InSuccess => combined.data = NoData

\* Three succeeded queries whose first and last data differ
C2_Witness ==
    /\ Len(queries) = 3
    /\ InSuccess
    /\ queries[1].data # queries[3].data
    /\ combined.data.list = <<queries[1].data, queries[2].data, queries[3].data>>

\* C14: in the error, the pending and the success state alike, isFetching is
\* true iff some query is fetching and isRefetching is true iff some query is
\* refetching.
C14_FetchingFlags ==
    /\ combined.isFetching <=> \E i \in 1..Len(queries) : queries[i].isFetching
    /\ combined.isRefetching <=> \E i \in 1..Len(queries) : queries[i].isRefetching

\* The success state with one of several queries being refetched
C14_Witness ==
    /\ InSuccess
    /\ combined.isFetching /\ combined.isRefetching
    /\ \E i \in 1..Len(queries) : ~queries[i].isFetching

\* C15: a refetchAll() call calls refetch() once on every query, whatever
\* the query's status, and returns without waiting: when it has returned
\* every query is fetching and none has got a new status or new data.
C15_RefetchAllOnce ==
    [][ refetches' # refetches =>
          /\ Len(refetches') = Len(queries)
          /\ \A i \in 1..Len(queries) :
                /\ refetches'[i] = refetches[i] + 1
                /\ queries'[i].isFetching
                /\ queries'[i].status = queries[i].status
                /\ queries'[i].data = queries[i].data ]_vars

\* One refetchAll() on an error next to a success: both have been asked to
\* refetch once, and the failed query is fetching again
C15_Witness ==
    /\ Len(queries) >= 2
    /\ \A i \in 1..Len(queries) : refetches[i] = 1
    /\ \E i \in 1..Len(queries) : queries[i].status = "error" /\ queries[i].isFetching
    /\ \E i \in 1..Len(queries) : queries[i].status = "success"

\* C17 (as claimed): the status discriminant is "error", "pending" or
\* "success" and agrees with the flags: "pending" iff isPending, "error" iff
\* isError, and isPending and isError never both.
C17_StatusAgrees ==
    /\ combined.status \in {"error", "pending", "success"}
    /\ combined.status = "pending" <=> combined.isPending
    /\ combined.status = "error" <=> combined.isError
    /\ ~(combined.isPending /\ combined.isError)

\* C30: for an empty list of queries the aggregate is in the success state
\* with the empty list as data, isFetching and isRefetching are false, and
\* refetchAll() has no query to call refetch() on.
C30_EmptyList ==
    queries = <<>> =>
        /\ combined.status = "success"
        /\ ~combined.isPending /\ ~combined.isError
        /\ combined.data = [def |-> TRUE, list |-> <<>>]
        /\ ~combined.isFetching /\ ~combined.isRefetching
        /\ refetchTargets(queries) = {}
        /\ refetches = <<>>

\* useCombinedAPIQueries() rendered without queries
C30_Witness ==
    /\ queries = <<>>
    /\ combined = combineQueries(<<>>)
    /\ combined.status = "success"
    /\ ENABLED refetchAll

----------------------------------------------------------------------------
(* Properties of refetching, checked under SpecRefetch *)

\* Every query is being refetched after a refetchAll() on a success state
AllRefetching ==
    /\ InSuccess
    /\ \A i \in 1..Len(queries) : queries[i].isFetching /\ refetches[i] >= 1

\* The success state with, in each position, the response to the last
\* request of the query in that position
AllRefetched ==
    /\ InSuccess
    /\ ~combined.isFetching
    /\ Len(combined.data.list) = Len(queries)
    /\ \A i \in 1..Len(queries) :
          combined.data.list[i] = Def(ResponseOf(i, refetches[i] + 1))

\* C24: after refetchAll() on an aggregate in the success state, when every
\* refetch succeeds, the aggregate gets to the success state with the new
\* values in the original positions, in whatever order the refetches
\* complete; while refetches are in flight it stays in the success state.
C24_RefetchAllSettles ==
    /\ [][InSuccess => InSuccess']_vars
    /\ AllRefetching ~> AllRefetched

\* Three queries refetched once: the second answers set in the positions of
\* their queries
C24_Witness ==
    /\ Len(queries) = 3
    /\ \A i \in 1..3 : refetches[i] = 1
    /\ AllRefetched
    /\ combined.data.list = <<Def(ResponseOf(1, 2)), Def(ResponseOf(2, 2)), Def(ResponseOf(3, 2))>>

----------------------------------------------------------------------------
(* Properties of the matcher, checked under SpecMatch *)

InvalidateOps ==
    {"invalidateQueries", "resetQueries", "invalidateInfiniteQueries", "resetInfiniteQueries"}

\* A value with the four fields of a query key of these hooks
WellFormed(e) == e.kind = "object" /\ KeyFields \subseteq e.has

\* The queries in the store whose key is the single query key the hooks build
HookQueries == {h \in DOMAIN store : Len(store[h].queryKey) = 1 /\ WellFormed(store[h].queryKey[1])}

KeyOf(h) == store[h].queryKey[1]

\* The hook queries the call's paginated flag selects
Selected == {h \in HookQueries : KeyOf(h).infinite = last.infinite}

\* C3 (as claimed): matching is scoped to the caller's name: invalidateQueries
\* and resetQueries of hooks created with name A match no entry created under
\* another name.
C3_ScopedToCaller ==
    last.op \in {"invalidateQueries", "resetQueries"} =>
        \A h \in last.matched \cap HookQueries : KeyOf(h).name = last.caller

C5_AllMatchesEveryPayload ==
    last.op \in InvalidateOps =>
        \A h \in Selected :
            (KeyOf(h).route \in Routes /\ last.spec[KeyOf(h).route] = All)
                => h \in last.matched

\* Two entries of one route with payloads { id: '1' } and { id: '2' }: the
\* spec 'all' matches both
C5_Witness ==
    /\ last.op \in InvalidateOps
    /\ \E h1 \in Selected, h2 \in Selected :
          /\ KeyOf(h1).route = KeyOf(h2).route
          /\ KeyOf(h1).name = last.caller /\ KeyOf(h2).name = last.caller
          /\ Content(KeyOf(h1).payload)["id"] = "1"
          /\ Content(KeyOf(h2).payload)["id"] = "2"
          /\ last.spec[KeyOf(h1).route] = All
          /\ last.matched = {h1, h2}

\* C6: when the spec maps a route to a list of candidates, an entry of that
\* route (with the call's paginated flag) matches iff its payload has the
\* same properties with the same values as some candidate; an empty list
\* matches nothing.
C6_ListMatchesByValue ==
    last.op \in InvalidateOps =>
        \A h \in Selected :
            (KeyOf(h).route \in Routes /\ last.spec[KeyOf(h).route].kind = "list") =>
                LET cands == last.spec[KeyOf(h).route].cands IN
                /\ h \in last.matched <=>
                      \E i \in 1..Len(cands) :
                          Content(cands[i]) = Content(KeyOf(h).payload)
                /\ cands = <<>> => h \notin last.matched

\* A candidate built apart from the entry's payload, with the same values,
\* matches the entry; the entry with another payload is not matched
C6_Witness ==
    /\ last.op \in InvalidateOps
    /\ \E h1 \in Selected, h2 \in Selected :
          /\ KeyOf(h1).route = KeyOf(h2).route
          /\ last.spec[KeyOf(h1).route] = List(<<3>>)
          /\ KeyOf(h1).payload = 1
          /\ KeyOf(h2).payload = 2
          /\ last.matched = {h1}

\* C7: when the spec maps a route to a predicate function, an entry of that
\* route (with the call's paginated flag) matches iff the function is true of
\* its payload, and the function is applied only to payloads of entries of
\* the route it is given for.
C7_FunctionMatches ==
    last.op \in InvalidateOps =>
        /\ \A h \in Selected :
              (KeyOf(h).route \in Routes /\ last.spec[KeyOf(h).route].kind = "fn") =>
                  (h \in last.matched <=>
                      ApplyFn(last.spec[KeyOf(h).route].fn, Content(KeyOf(h).payload)))
        /\ \A c \in last.calls :
              /\ c.under = c.route
              /\ last.spec[c.under] = Fn(c.fn)

\* A function given for one route, entries of two routes: the function is
\* applied once, to the entry of its route, which it accepts
C7_Witness ==
    /\ last.op \in InvalidateOps
    /\ \E h1 \in Selected, h2 \in Selected :
          /\ KeyOf(h1).route # KeyOf(h2).route
          /\ last.spec[KeyOf(h1).route].kind = "fn"
          /\ last.spec[KeyOf(h2).route].kind = "all"
          /\ Cardinality(last.calls) = 1
          /\ \A c \in last.calls : c.payload = KeyOf(h1).payload
          /\ last.matched = {h1, h2}

\* C9 (as claimed): a key element that is not a well-formed query key (a
\* string, a number, null, an array, an object missing a field) is skipped:
\* the matcher neither matches such an entry nor throws on it.
C9_MalformedSkipped ==
    last.op \in {"invalidateQueries", "resetQueries"} =>
        \A h \in DOMAIN store :
            (\A i \in 1..Len(store[h].queryKey) : ~WellFormed(store[h].queryKey[i]))
                => (h \notin last.matched /\ h \notin last.threwOn)

\* C16 (as claimed): after invalidateQueries or resetQueries, every mounted
\* entry the spec matches has one new transport request in flight and the
\* call issued one request per such entry; an entry the spec does not match
\* has no request in flight and shows the value it showed.  (Before the call
\* every entry holds the server's response and none is being fetched.)
C16_MatchedRefetchedOnce ==
    last.op \in {"invalidateQueries", "resetQueries"} =>
        /\ \A h \in last.matched : store[h].active => store[h].fetching
        /\ last.issued = Cardinality({h \in last.matched : store[h].active})
        /\ \A h \in DOMAIN store \ last.matched :
              ~store[h].fetching /\ store[h].data = ServerData

----------------------------------------------------------------------------
(* Properties of the cache utilities, checked under Spec *)

\* C8: a route absent from the spec matches no entry and its entries stay as
\* they are, also when another route of the spec uses 'all'; the empty spec
\* matches nothing, changes no entry and issues no request.
C8_AbsentRouteUntouched ==
    [][ last'.op \in InvalidateOps =>
          /\ \A h \in DOMAIN store' :
                (/\ Len(store'[h].queryKey) = 1
                 /\ WellFormed(store'[h].queryKey[1])
                 /\ last'.spec[store'[h].queryKey[1].route] = Absent)
                    => /\ h \notin last'.matched
                       /\ h \in DOMAIN store
                       /\ store'[h] = store[h]
          /\ last'.spec = EmptySpec =>
                /\ last'.matched = {}
                /\ last'.issued = 0
                /\ store' = store ]_vars

\* A mounted entry with data, of a route the spec leaves out, while the
\* spec's 'all' for another route matches and refetches another entry
C8_Witness ==
    /\ last.op \in {"invalidateQueries", "resetQueries"}
    /\ last.spec # EmptySpec
    /\ last.issued = 1
    /\ \E h \in HookQueries :
          /\ last.spec[KeyOf(h).route] = Absent
          /\ store[h].active /\ store[h].data.def /\ ~store[h].fetching

\* The query an updateCache / updateInfiniteCache call addresses
TargetOf(l) == hashKey(<<createQueryKey(l.caller, l.route, l.payload, l.infinite)>>)

UpdateOps == {"updateCache", "updateInfiniteCache"}

\* C10: updateCache / updateInfiniteCache with a function, on a query key
\* that has no cached value (no entry, or an entry without data yet), never
\* calls the function, creates no entry and leaves the store as it is.
C10_NoOpUpdate ==
    [][ (/\ last'.op \in UpdateOps
         /\ last'.updater # "literal"
         /\ (TargetOf(last') \in DOMAIN store => ~store[TargetOf(last')].data.def))
           => /\ ~last'.invoked
              /\ store' = store ]_vars

\* A function update on an entry whose first fetch is still in flight
C10_Witness ==
    /\ last.op \in UpdateOps
    /\ last.updater # "literal"
    /\ ~last.invoked
    /\ TargetOf(last) \in DOMAIN store
    /\ ~store[TargetOf(last)].data.def
    /\ store[TargetOf(last)].fetching

\* C11: a function update that mutates its working copy and returns nothing
\* leaves the cache as the function update that returns a newly built value
\* equal to the mutated copy would: the same data in the addressed query,
\* every other query as it was, and no change at all when there is no cached
\* value.
C11_MutateEqualsReturn ==
    [][ (last'.op \in UpdateOps /\ last'.updater = "mutate") =>
          IF TargetOf(last') \in DOMAIN store /\ store[TargetOf(last')].data.def
          THEN store' = [store EXCEPT
                           ![TargetOf(last')].data =
                               updaterResult("return", store[TargetOf(last')].data),
                           ![TargetOf(last')].isInvalidated = FALSE]
          ELSE store' = store ]_vars

\* A mutating update of an entry that held the server's response
C11_Witness ==
    /\ last.op \in UpdateOps
    /\ last.updater = "mutate"
    /\ last.invoked
    /\ last.base = ServerData
    /\ store[TargetOf(last)].data = UpdatedData

\* The queries with a transport request in flight
Fetching(st) == {h \in DOMAIN st : st[h].fetching}

\* C12: updateCache / updateInfiniteCache issue no transport request, with a
\* literal or a function, with or without a cached value: no query starts
\* fetching, and when the update writes, the addressed query holds the
\* updated value at once, which is what a mounted consumer of it reads.
C12_UpdateIsLocal ==
    [][ last'.op \in UpdateOps =>
          /\ last'.issued = 0
          /\ Fetching(store') = Fetching(store)
          /\ (last'.updater = "literal" \/ last'.invoked) =>
                /\ TargetOf(last') \in DOMAIN store'
                /\ store'[TargetOf(last')].data = UpdatedData ]_vars

\* A literal update of a mounted entry that held the server's response and
\* had no request in flight
C12_Witness ==
    /\ last.op \in UpdateOps
    /\ last.updater = "literal"
    /\ last.base = ServerData
    /\ store[TargetOf(last)].active
    /\ ~store[TargetOf(last)].fetching
    /\ store[TargetOf(last)].data = UpdatedData

\* C13: a function update does not change the object that was cached before
\* the call: that object holds afterwards what it held before, and the store
\* holds the value the update produced.
C13_CopyOnWrite ==
    (last.op \in UpdateOps /\ last.updater # "literal") =>
        /\ last.baseAfter = last.base
        /\ last.invoked => store[TargetOf(last)].data = UpdatedData

\* A mutating update of the server's response: the response object still
\* holds the server's message, the store holds the updated one
C13_Witness ==
    /\ last.op \in UpdateOps
    /\ last.updater = "mutate"
    /\ last.invoked
    /\ last.base = ServerData
    /\ last.baseAfter = ServerData
    /\ store[TargetOf(last)].data = UpdatedData

----------------------------------------------------------------------------
(* Properties of the reads and updates of a store, checked under SpecRead *)

\* C28: updateCache and updateInfiniteCache change at most the one entry
\* whose key is that of the caller's name, the route, the payload and the
\* method's paginated flag: every other entry, of another payload, another
\* name or the opposite flag, is as it was, and no other entry is created.
C28_UpdateFrame ==
    [][ last'.op \in UpdateOps =>
          /\ DOMAIN store \subseteq DOMAIN store'
          /\ DOMAIN store' \subseteq DOMAIN store \cup {TargetOf(last')}
          /\ \A h \in DOMAIN store : h # TargetOf(last') => store'[h] = store[h] ]_vars

\* The entry of the opposite paginated flag
Opposite(l) == hashKey(<<createQueryKey(l.caller, l.route, l.payload, ~l.infinite)>>)

\* An update wrote the entry of a route and payload while the store holds the
\* entry of the same name, route and payload with the opposite flag, which
\* still holds the server's response
C28_Witness ==
    /\ last.op \in UpdateOps
    /\ last.base = ServerData
    /\ store[TargetOf(last)].data = UpdatedData
    /\ Opposite(last) \in DOMAIN store
    /\ store[Opposite(last)].data = ServerData

BulkReadOps == {"getQueriesData", "getInfiniteQueriesData"}

\* The entries a bulk read is claimed to return: those of the caller's name
\* and of the route, paginated or not as the call selects
InScope(l) ==
    {h \in HookQueries : /\ KeyOf(h).name = l.caller
                         /\ KeyOf(h).route = l.route
                         /\ KeyOf(h).infinite = l.infinite}

\* C18 (as claimed): getQueriesData(route) returns exactly one
\* { payload, data } pair for each non-paginated entry of the route created
\* under the caller's name, whatever its payload, and none for paginated
\* entries, other routes or other names; getInfiniteQueriesData(route) does
\* the same for paginated entries; neither changes the store.
C18_BulkReadScoped ==
    [][ last'.op \in BulkReadOps =>
          /\ ~last'.threw
          /\ DOMAIN last'.pairs = InScope(last')
          /\ \A h \in InScope(last') :
                last'.pairs[h] = [payload |-> KeyOf(h).payload, data |-> store[h].data]
          /\ store' = store ]_vars

----------------------------------------------------------------------------
(* Properties of the transport client, checked under SpecRequest *)

\* The names of the ':param' segments of a url
PathParams(url) ==
    {SubSeq(split(url, "/")[i], 2, Len(split(url, "/")[i])) :
        i \in {i \in 1..Len(split(url, "/")) :
                  /\ Len(split(url, "/")[i]) > 0
                  /\ split(url, "/")[i][1] = ":"}}

\* The payload the config carries, as query params or as body
Forwarded == IF sent.method \in {GET, DELETE} THEN sent.params ELSE sent.data

\* C20 (as claimed): request forwards exactly the properties of the payload
\* that do not name a ':param' segment of the route and hold a defined
\* value, each with its value; an array payload is forwarded unchanged.
C20_ForwardsNonPathKeys ==
    sent # NoRequest =>
        IF sent.payload.kind = "array" THEN Forwarded = sent.payload
        ELSE Forwarded =
               Payload("object",
                   SelectSeq(sent.payload.entries,
                       LAMBDA e : /\ e.value # UndefinedValue
                                  /\ e.name \notin PathParams(split(sent.route, " ")[2])))

\* The value a payload holds under a name
ValueOf(payload, name) ==
    (CHOOSE e \in {payload.entries[i] : i \in 1..Len(payload.entries)} : e.name = name).value

HasName(payload, name) == \E i \in 1..Len(payload.entries) : payload.entries[i].name = name

\* The segments of a url template with each ':param' segment that the
\* payload has a property for replaced by the property's encoded value
SubstitutedSegments(url, payload) ==
    [i \in 1..Len(split(url, "/")) |->
        LET seg == split(url, "/")[i] IN
        IF /\ Len(seg) > 0
           /\ seg[1] = ":"
           /\ HasName(payload, SubSeq(seg, 2, Len(seg)))
        THEN encodeURIComponent(ValueOf(payload, SubSeq(seg, 2, Len(seg))))
        ELSE seg]

\* C25 (as claimed): the url request sends is the route's path template with
\* each ':param' segment replaced by the URI-encoded value of the payload
\* property of that name; properties that name no ':param' segment do not
\* alter the url, and the url does not depend on the order of the properties.
C25_UrlFromPathParams ==
    sent # NoRequest =>
        split(sent.url, "/") = SubstitutedSegments(split(sent.route, " ")[2], sent.payload)

----------------------------------------------------------------------------
(* Properties of payloads with undefined properties, checked under SpecUndefined *)

\* A payload without its properties that hold undefined
Defined(payload) ==
    Payload(payload.kind, SelectSeq(payload.entries, LAMBDA e : e.value # UndefinedValue))

\* Two payload objects that differ at most in properties holding undefined
SameRequest(a, b) == hashObj(Content(a)) = hashObj(Content(b))

\* C29 (as claimed): payloads that differ only in properties holding
\* undefined are the same request everywhere: request forwards the payload
\* it would forward without those properties, and a list candidate that is
\* such a payload matches the entry created with the other.
C29_UndefinedKeysIgnored ==
    /\ sent # NoRequest =>
          Forwarded = removePathParamsFromRequestPayload(
                          split(sent.route, " ")[2], Defined(sent.payload))
    /\ (last.op \in InvalidateOps /\ ~last.threw) =>
          \A h \in Selected :
              (/\ last.spec[KeyOf(h).route].kind = "list"
               /\ \E i \in 1..Len(last.spec[KeyOf(h).route].cands) :
                     SameRequest(last.spec[KeyOf(h).route].cands[i], KeyOf(h).payload))
                 => h \in last.matched

----------------------------------------------------------------------------
(* Properties of the recognizer, checked under SpecRecognize *)

\* An object with the four fields, each of the type InternalQueryKey declares
RightlyTyped(e) == WellFormed(e) /\ e.mistyped = {}

\* C22 (as claimed): isInternalQueryKey returns true only for values with the
\* four fields name, route, payload, infinite, each of the right type; a
\* value with a field missing or of another type is rejected, and the
\* matcher never matches an entry on such a value.
C22_RecognizerChecksTypes ==
    last.op \in InvalidateOps =>
        /\ \A h \in DOMAIN store : \A i \in 1..Len(store[h].queryKey) :
              isInternalQueryKey(store[h].queryKey[i]) = "true"
                 <=> RightlyTyped(store[h].queryKey[i])
        /\ \A h \in last.matched :
              \E i \in 1..Len(store[h].queryKey) : RightlyTyped(store[h].queryKey[i])

----------------------------------------------------------------------------
(* Properties of successive updates, checked under SpecSuccessive *)

\* C27: every updateCache call with a function applies it to the value the
\* store holds when the call runs, whatever calls were made before and from
\* whichever call site: after an update f and then an update g on an entry
\* holding v the entry holds g(f(v)).
C27_NoLostUpdate ==
    [][ (/\ last'.op = "updateCache"
         /\ last'.updater # "literal"
         /\ TargetOf(last') \in DOMAIN store
         /\ store[TargetOf(last')].data.def)
           => /\ last'.base = store[TargetOf(last')].data
              /\ store'[TargetOf(last')].data =
                    IF recipe(last'.updater, last'.base).ret.def
                    THEN recipe(last'.updater, last'.base).ret
                    ELSE recipe(last'.updater, last'.base).draft ]_vars

\* The second of two extending updates, made through another payload object
\* than the query was mounted with: the entry holds the server's response
\* extended twice
C27_Witness ==
    /\ last.op = "updateCache"
    /\ last.updater = "append"
    /\ last.payload = 3
    /\ last.base = Def(Appended(ServerData.message))
    /\ store[TargetOf(last)].data = Def(Appended(Appended(ServerData.message)))

----------------------------------------------------------------------------
(* Properties of the utilities of src/src/cache.ts, checked under SpecPrefixed *)

\* The paginated queries of these hooks in the store
InfiniteQueries ==
    {h \in DOMAIN store : /\ Len(store[h].queryKey) = 2
                          /\ store[h].queryKey[1] = INFINITE_QUERY_KEY
                          /\ WellFormed(store[h].queryKey[2])}

\* The spec holds 'all' or a function accepting the payload for the key's route
Accepts(spec, key) ==
    \/ spec[key.route].kind = "all"
    \/ spec[key.route].kind = "fn" /\ ApplyFn(spec[key.route].fn, Content(key.payload))

\* C23 (as claimed): invalidateQueries and resetQueries, given for a route
\* 'all' or a function that accepts the payload, match the mounted paginated
\* query of that route and refetch it: one transport request more per call.
C23_InfiniteInvalidated ==
    last.op \in {"invalidateQueries", "resetQueries"} =>
        \A h \in InfiniteQueries :
            Accepts(last.spec, store[h].queryKey[2]) =>
                /\ h \in last.matched
                /\ store[h].fetching
                /\ last.issued >= 1

----------------------------------------------------------------------------
(* Properties of paginated queries, checked under SpecPages *)

\* The queries of the hook calls
InfiniteKeys == {<<createQueryKey(c[1], c[2], c[3], TRUE)>> : c \in InfiniteCalls}

\* A step in which the page request of h is sent
Requests(h) ==
    /\ h \in DOMAIN store'
    /\ store'[h].fetching
    /\ h \in DOMAIN store => ~store[h].fetching

\* A step in which the page request of h is answered
Answers(h) == h \in DOMAIN store /\ store[h].fetching /\ ~store'[h].fetching

\* payload has the properties of init and of param, each holding param's
\* value when param has it and init's value otherwise
Overridden(payload, init, param) ==
    \A n \in PayloadNames :
        /\ HasName(payload, n) <=> (HasName(init, n) \/ HasName(param, n))
        /\ HasName(payload, n) =>
              ValueOf(payload, n) = IF HasName(param, n) THEN ValueOf(param, n)
                                    ELSE ValueOf(init, n)

\* C26: the payload of every page request of a paginated query is the
\* initial payload with the properties of the page parameter overriding it,
\* and the query's key carries the initial payload only: fetching a next or
\* previous page adds no query to the store, and every answered page is held
\* by the query of that key, together with the pages it held before.
C26_PagesUnderOneKey ==
    /\ [](\A h \in DOMAIN store : store[h].queryKey \in InfiniteKeys)
    /\ [][\A h \in DOMAIN store' :
            /\ Requests(h) =>
                  LET init == toPayload(Content(store'[h].queryKey[1].payload))
                      param == store'[h].pageParam
                  IN  /\ sent'.route = Chars(store'[h].queryKey[1].route)
                      /\ Overridden(sent'.payload, init, param)
                      /\ store'[h].pages # <<>> => DOMAIN store' = DOMAIN store
            /\ Answers(h) =>
                  /\ DOMAIN store' = DOMAIN store
                  /\ Len(store'[h].pages) = Len(store[h].pages) + 1
                  /\ \E i \in 1..Len(store'[h].pages) :
                        /\ Overridden(store'[h].pages[i],
                                      toPayload(Content(store[h].queryKey[1].payload)),
                                      store[h].pageParam)
                        /\ [j \in 1..Len(store[h].pages) |->
                               store'[h].pages[IF j < i THEN j ELSE j + 1]] = store[h].pages
                  /\ \A g \in DOMAIN store \ {h} : store'[g] = store[g]]_vars

\* Some query holds MaxPages pages, fetched in both directions, the page
\* parameters having overridden a property of its initial payload
C26_Witness ==
    \E h \in DOMAIN store :
        /\ ~store[h].fetching
        /\ Len(store[h].pages) = MaxPages
        /\ \E i, j \in 1..MaxPages :
              /\ store[h].pageParams[i] \in NextPageParams
              /\ store[h].pageParams[j] \in PreviousPageParams
              /\ ValueOf(store[h].pages[j], Chars("id")) #
                     ValueOf(toPayload(Content(store[h].queryKey[1].payload)), Chars("id"))

----------------------------------------------------------------------------
(* Properties of request mocking, checked under SpecMock *)

\* The handlers that call number c registered
HandlersOf(c) == {i \in 1..Len(handlers) : handlers[i].call = c}

\* C21: the responses of a mockOrdered(route, [r1..rn]) call are served in
\* the order provided, each once: of the requests to the route since the
\* call, which is the route's latest mocking call, the k-th receives r_k
\* from the k-th response's handler for every k <= n, every later one is
\* answered by something else than the call's handlers, and the handlers of
\* any call that have answered are those of the first responses of its list.
C21_OrderedOnce ==
    /\ \A route \in MockRoutes :
          LET m == mocked[route] IN
          \A k \in 1..Len(m.received) :
              IF k <= Len(m.list)
              THEN m.received[k] = Received(m.list[k], m.call, k)
              ELSE m.received[k].call # m.call \/ m.list = <<>>
    /\ \A i, j \in 1..Len(handlers) :
          (/\ handlers[i].once
           /\ handlers[i].call = handlers[j].call
           /\ handlers[i].index < handlers[j].index
           /\ handlers[j].used) => handlers[i].used

\* A list of MaxResponses responses has been served and one more request
\* was made, which a handler registered before the call answered
C21_Witness ==
    \E route \in MockRoutes :
        LET m == mocked[route] IN
        /\ Len(m.list) = MaxResponses
        /\ Len(m.received) = MaxResponses + 1
        /\ m.received[MaxResponses + 1].response \in MockResponses
        /\ \A i \in HandlersOf(m.call) : handlers[i].used

====
